---- MODULE Spec2Model ----
(***************************************************************************)
(* A model of biobb_pydock: the INI writer and file helpers of             *)
(* pydock/common.py, the energy-table filter of pydock/makePDB.py and the  *)
(* launch sequence of the wrapper blocks (setup, ftdock, dockser, dockrst, *)
(* oda).                                                                   *)
(*                                                                         *)
(* Conventions.  A Python str is a TLA+ string; None is the string NoneV   *)
(* where a str is expected.  A dict is either a sequence of <<key, value>> *)
(* pairs in insertion order (the property dictionaries, whose iteration    *)
(* order the code depends on) or a function from keys to values (the path  *)
(* dictionaries, looked up by key).  An optional dict is wrapped in a      *)
(* record [none, items].  A path is a record [dir, name].                  *)
(***************************************************************************)
EXTENDS Integers, Sequences, FiniteSets, TLC

VARIABLES
    ini_in,     \* the arguments of a direct call of create_ini
    ini_out,    \* what that call did: not called yet, raised, or the file written
    rank_in,    \* the arguments of a direct call of the energy-table functions
    rank_out,   \* what get_conformations and get_conformation_filenames returned
    fs,         \* the files on disk: a function from the paths that exist to contents
    last,       \* the last call of a block: its arguments and what launch did
    launches    \* the number of calls made so far

ini_vars == <<ini_in, ini_out>>
rank_vars == <<rank_in, rank_out>>
launch_vars == <<fs, last, launches>>
vars == <<ini_in, ini_out, rank_in, rank_out, fs, last, launches>>

-----------------------------------------------------------------------------
(* Python values *)

\* None, where the code expects a str
NoneV == "<None>"

\* str(x) as the f-strings of create_ini apply it: str(None) is 'None'
Str(x) == IF x = NoneV THEN "None" ELSE x

\* truth value of an optional str: None and '' are false
Truthy(x) == x # NoneV /\ x # ""

\* an optional property dictionary: None, or the items in insertion order
NoneDict == [none |-> TRUE, items |-> <<>>]
Dict(items) == [none |-> FALSE, items |-> items]

\* d[key] of a property dictionary given as items; KeyError when absent
HasKey(items, key) == \E i \in 1..Len(items) : items[i][1] = key
Lookup(items, key) ==
    LET i == CHOOSE j \in 1..Len(items) :
                 items[j][1] = key /\ \A k \in (j+1)..Len(items) : items[k][1] # key
    IN items[i][2]

\* an optional path dictionary: None, or a function from keys to str
NoPaths == [none |-> TRUE, map |-> <<>>]
Paths(map) == [none |-> FALSE, map |-> map]

\* input_paths.get(key)
Get(map, key) == IF key \in DOMAIN map THEN map[key] ELSE NoneV

\* the return value of a call that may not have been made yet
NoResult == [called |-> FALSE, value |-> <<>>]
Result(value) == [called |-> TRUE, value |-> value]
NoRankResults == [conformations |-> NoResult, filenames |-> NoResult]

\* the state of the blocks where no block is ever called
NoFiles == <<>>
NoLaunch == [status |-> "none"]

-----------------------------------------------------------------------------
(* common.py: create_ini *)

\* `if input_paths:` - neither None nor an empty dict
HasInputPaths(input_paths) == ~input_paths.none /\ DOMAIN input_paths.map # {}

\* the local variables create_ini reads out of input_paths
PathOf(input_paths, key, default) ==
    IF HasInputPaths(input_paths) THEN Get(input_paths.map, key) ELSE default

\* f'{key} = {value}' for every item of a property dictionary, in order
ItemLines(items) == [i \in 1..Len(items) |-> items[i][1] \o " = " \o Str(items[i][2])]

PdbEntryEither(pdb_path, coords_path, top_path) ==
    IF Truthy(coords_path) \/ Truthy(top_path)
    THEN "pdb = " \o Str(coords_path) \o "," \o Str(top_path)
    ELSE "pdb = " \o Str(pdb_path)

\* the 'pdb' entry of the receptor or ligand section
PdbEntry(pdb_path, coords_path, top_path) ==
    IF Truthy(coords_path) /\ Truthy(top_path)
    THEN "pdb = " \o Str(coords_path) \o "," \o Str(top_path)
    ELSE "pdb = " \o Str(pdb_path)

WritesReferenceIfTruthy(reference_prop, reference_path) ==
    /\ ~reference_prop.none /\ reference_prop.items # <<>>
    /\ Truthy(reference_path)

\* `None not in (reference_prop, reference_path)`
WritesReference(reference_prop, reference_path) ==
    ~reference_prop.none /\ reference_path # NoneV

ReceptorSection(receptor_prop, input_paths) ==
    <<"[receptor]",
      PdbEntry(PathOf(input_paths, "input_rec_pdb_path", "-"),
               PathOf(input_paths, "input_rec_coords_path", NoneV),
               PathOf(input_paths, "input_rec_top_path", NoneV))>>
    \o ItemLines(receptor_prop)

LigandSection(ligand_prop, input_paths) ==
    <<"[ligand]",
      PdbEntry(PathOf(input_paths, "input_lig_pdb_path", "-"),
               PathOf(input_paths, "input_lig_coords_path", NoneV),
               PathOf(input_paths, "input_lig_top_path", NoneV))>>
    \o ItemLines(ligand_prop)

\* the reference block up to the reference items; the two additional items
\* follow in create_ini, which may raise on them
ReferenceSection(reference_prop, reference_path) ==
    <<"[reference]", "pdb = " \o Str(reference_path)>> \o ItemLines(reference_prop.items)

AdditionalItemsSwapped(receptor_prop, ligand_prop) ==
    <<"newrecmol = " \o Str(Lookup(ligand_prop, "newmol")),
      "newligmol = " \o Str(Lookup(receptor_prop, "newmol"))>>

AdditionalItems(receptor_prop, ligand_prop) ==
    <<"newrecmol = " \o Str(Lookup(receptor_prop, "newmol")),
      "newligmol = " \o Str(Lookup(ligand_prop, "newmol"))>>

IniLinesLigandFirst(receptor, ligand, reference) == ligand \o receptor \o reference

\* ini_lines: the appends of create_ini in the order they are made
IniLines(receptor, ligand, reference) == receptor \o ligand \o reference

\* The outcome of a call: KeyError before anything is written, or the lines
\* write_ini writes, one per element.
Raised(what) == [raised |-> TRUE, error |-> what, lines |-> <<>>]
Written(lines) == [raised |-> FALSE, error |-> "", lines |-> lines]

create_ini(receptor_prop, ligand_prop, reference_prop, input_paths) ==
    LET reference_path == PathOf(input_paths, "input_ref_path", NoneV)
        rec == ReceptorSection(receptor_prop, input_paths)
        lig == LigandSection(ligand_prop, input_paths)
    IN IF WritesReference(reference_prop, reference_path)
       THEN IF HasKey(receptor_prop, "newmol") /\ HasKey(ligand_prop, "newmol")
            THEN Written(IniLines(rec, lig,
                                  ReferenceSection(reference_prop, reference_path)
                                  \o AdditionalItems(receptor_prop, ligand_prop)))
            ELSE Raised("KeyError")
       ELSE Written(IniLines(rec, lig, <<>>))

-----------------------------------------------------------------------------
(* Direct calls of create_ini, over a bounded set of arguments *)

PropChoices ==
    { <<<<"mol", "A">>, <<"newmol", "A">>>>,
      <<<<"mol", "A">>, <<"newmol", "B">>, <<"restr", "B.Ala.133">>>>,
      <<<<"mol", "A">>>>,
      <<>> }

ReferenceChoices ==
    { NoneDict,
      Dict(<<>>),
      Dict(<<<<"recmol", "A">>, <<"ligmol", "H">>>>),
      Dict(<<<<"recmol", "A">>, <<"ligmol", "H">>, <<"newrecmol", "A">>, <<"newligmol", "B">>>>) }

PathKeys ==
    { "input_rec_pdb_path", "input_rec_coords_path", "input_rec_top_path",
      "input_lig_pdb_path", "input_lig_coords_path", "input_lig_top_path",
      "input_ref_path" }

\* the str a path dictionary holds under a key when the key is present
PathValues(key) ==
    CASE key = "input_rec_pdb_path"    -> {"/data/receptor.pdb"}
      [] key = "input_rec_coords_path" -> {"/data/receptor.inpcrd"}
      [] key = "input_rec_top_path"    -> {"/data/receptor.prmtop"}
      [] key = "input_lig_pdb_path"    -> {"/data/ligand.pdb"}
      [] key = "input_lig_coords_path" -> {"/data/ligand.inpcrd"}
      [] key = "input_lig_top_path"    -> {"/data/ligand.prmtop"}
      [] key = "input_ref_path"        -> {"/data/reference.pdb", "", NoneV}

PathDicts ==
    UNION { {m \in [keys -> UNION {PathValues(k) : k \in keys}] :
                \A k \in keys : m[k] \in PathValues(k)} : keys \in SUBSET PathKeys }

InputPathChoices == {NoPaths} \cup {Paths(m) : m \in PathDicts}

IniArgs ==
    [receptor_prop : PropChoices, ligand_prop : PropChoices,
     reference_prop : ReferenceChoices, input_paths : InputPathChoices]

NotCalled == [raised |-> FALSE, error |-> "not called", lines |-> <<>>]

IniInit ==
    /\ ini_in \in IniArgs
    /\ ini_out = NotCalled
    /\ rank_in = "idle"
    /\ rank_out = NoRankResults
    /\ fs = NoFiles /\ last = NoLaunch /\ launches = 0

CallCreateIni ==
    /\ ini_out = NotCalled
    /\ ini_out' = create_ini(ini_in.receptor_prop, ini_in.ligand_prop,
                             ini_in.reference_prop, ini_in.input_paths)
    /\ UNCHANGED <<ini_in, rank_vars, launch_vars>>

IniNext == CallCreateIni

-----------------------------------------------------------------------------
(* makePDB.py: get_conformations, get_conformation_filenames *)

\* largest number of rows of an energy table
MaxRows == 3

\* int(x) of a rank: an int as it is, a decimal str digit by digit
RECURSIVE IntOfDigits(_)
IntOfDigits(digits) ==
    IF digits = <<>> THEN 0
    ELSE 10 * IntOfDigits(SubSeq(digits, 1, Len(digits) - 1)) + digits[Len(digits)]

int(x) == IF x.str THEN IntOfDigits(x.digits) ELSE x.int

InRangeExclusive(rank, rank1, rank2) == rank >= int(rank1) /\ rank < int(rank2)

InRangeNoUpper(rank, rank1, rank2) == rank >= int(rank1)

\* (df['RANK'] >= int(rank1)) & (df['RANK'] <= int(rank2))
InRange(rank, rank1, rank2) == rank >= int(rank1) /\ rank <= int(rank2)

\* df[mask]: the rows the mask keeps, in the order of the table
RECURSIVE SelectRows(_, _, _)
SelectRows(df, rank1, rank2) ==
    IF df = <<>> THEN <<>>
    ELSE (IF InRange(Head(df).RANK, rank1, rank2) THEN <<Head(df)>> ELSE <<>>)
         \o SelectRows(Tail(df), rank1, rank2)

\* df['Conf'].to_list() of the selected rows; input_ene_path is the table
\* read_csv parsed out of the file
get_conformations(input_ene_path, rank1, rank2) ==
    LET df == SelectRows(input_ene_path, rank1, rank2)
    IN [i \in 1..Len(df) |-> df[i].Conf]

ConformationFilenameNoSeparator(docking_name, conf) ==
    docking_name \o ToString(conf) \o ".pdb"

\* f'{docking_name}_{conf}.pdb'
ConformationFilename(docking_name, conf) ==
    docking_name \o "_" \o ToString(conf) \o ".pdb"

get_conformation_filenames(docking_name, input_ene_path, rank1, rank2) ==
    LET conformations == get_conformations(input_ene_path, rank1, rank2)
    IN [i \in 1..Len(conformations) |->
            ConformationFilename(docking_name, conformations[i])]

-----------------------------------------------------------------------------
(* Direct calls of the energy-table functions, over bounded tables *)

ConfChoices == {4333, 17}
RankChoices == {1, 2, 12}

Rows == [Conf : ConfChoices, RANK : RankChoices]
Tables == UNION {[1..n -> Rows] : n \in 0..MaxRows}

\* a rank as the caller gives it: the int n, or the decimal str of n
RECURSIVE DigitsOf(_)
DigitsOf(n) == IF n < 10 THEN <<n>> ELSE DigitsOf(n \div 10) \o <<n % 10>>
AsInt(n) == [str |-> FALSE, int |-> n, digits |-> <<>>]
AsStr(n) == [str |-> TRUE, int |-> 0, digits |-> DigitsOf(n)]
RankArgs == {AsInt(n) : n \in RankChoices} \cup {AsStr(n) : n \in RankChoices}

RankIn ==
    {a \in [docking_name : {"docking_name"}, input_ene_path : Tables,
            rank1 : RankArgs, rank2 : RankArgs] : a.rank1.str = a.rank2.str}

RankInit ==
    /\ rank_in \in RankIn
    /\ rank_out = NoRankResults
    /\ ini_in = "idle"
    /\ ini_out = NotCalled
    /\ fs = NoFiles /\ last = NoLaunch /\ launches = 0

CallGetConformations ==
    /\ ~rank_out.conformations.called
    /\ rank_out' = [rank_out EXCEPT !.conformations =
           Result(get_conformations(rank_in.input_ene_path, rank_in.rank1, rank_in.rank2))]
    /\ UNCHANGED <<rank_in, ini_vars, launch_vars>>

CallGetConformationFilenames ==
    /\ rank_out.conformations.called
    /\ ~rank_out.filenames.called
    /\ rank_out' = [rank_out EXCEPT !.filenames =
           Result(get_conformation_filenames(rank_in.docking_name, rank_in.input_ene_path,
                                             rank_in.rank1, rank_in.rank2))]
    /\ UNCHANGED <<rank_in, ini_vars, launch_vars>>

RankNext ==
    \/ CallGetConformations
    \/ CallGetConformationFilenames

-----------------------------------------------------------------------------
(* Paths and files *)

\* A path is its directory and its file name; '.' is the working directory.
Path(dir, name) == [dir |-> dir, name |-> name]
NonePath == Path("<None>", "<None>")

\* a file name relative to the working directory, as the internal names are
Relative(name) == Path(".", name)

\* Path(dir).joinpath(Path(file_path).name)
JoinName(dir, file_path) == Path(dir, file_path.name)

\* str(path)
PathStr(p) == IF p.dir = "." THEN p.name ELSE p.dir \o "/" \o p.name

\* Path(p).exists()
Exists(files, p) == p \in DOMAIN files

WriteFile(files, p, content) ==
    [q \in DOMAIN files \cup {p} |-> IF q = p THEN content ELSE files[q]]

RemoveFile(files, p) == [q \in DOMAIN files \ {p} |-> files[q]]

\* shutil.copy(src, dst)
CopyFile(files, src, dst) == WriteFile(files, dst, files[src])

\* shutil.move(src, dst) to a file path: a rename, which replaces dst
MoveFile(files, src, dst) ==
    IF src = dst THEN files ELSE RemoveFile(WriteFile(files, dst, files[src]), src)

\* shutil.rmtree of a temporary directory
RemoveDir(files, dir) == [q \in {x \in DOMAIN files : x.dir # dir} |-> files[q]]

\* the files of a directory, as name and content
Listing(files, dir) ==
    {[name |-> q.name, content |-> files[q]] : q \in {x \in DOMAIN files : x.dir = dir}}

-----------------------------------------------------------------------------
(* common.py: rename_files, copy_files.  A path dictionary whose iteration *)
(* order matters is a sequence of <<file_ref, path>> items.                *)

\* rename_files: shutil.move of every source that exists, in the order of
\* destination_paths; shutil.move(source, None) raises TypeError and ends
\* the loop with the earlier files moved
RECURSIVE rename_files(_, _, _)
rename_files(files, source_paths, destination_paths) ==
    IF destination_paths = <<>> THEN [files |-> files, raised |-> FALSE]
    ELSE LET source == Lookup(source_paths, Head(destination_paths)[1])
             destination_path == Head(destination_paths)[2]
         IN IF Exists(files, source)
            THEN IF destination_path = NonePath
                 THEN [files |-> files, raised |-> TRUE]
                 ELSE rename_files(MoveFile(files, source, destination_path),
                                   source_paths, Tail(destination_paths))
            ELSE rename_files(files, source_paths, Tail(destination_paths))

\* copy_files: shutil.copy of every source that exists
RECURSIVE copy_files(_, _, _)
copy_files(files, source_paths, destination_paths) ==
    IF destination_paths = <<>> THEN files
    ELSE LET source == Lookup(source_paths, Head(destination_paths)[1])
             destination_path == Head(destination_paths)[2]
         IN copy_files(IF Exists(files, source)
                       THEN CopyFile(files, source, destination_path) ELSE files,
                       source_paths, Tail(destination_paths))

-----------------------------------------------------------------------------
(* The blocks: what __init__ of each class builds from the call *)

\* largest number of calls of blocks in one run of the model
MaxLaunches == 2

\* properties.get('docking_name', 'docking_name') and the other defaults
docking_name == "docking_name"
subunit_name == "subunit_name"
binary_path == "pydock3"
container_volume_path == "/data"

\* A call is a function from the keywords the caller wrote to paths.  A
\* parameter with default None takes the keyword's value when the caller
\* wrote that keyword; any other keyword lands in **kwargs and is dropped.
Arg(call, name) == IF name \in DOMAIN call THEN call[name] ELSE NonePath

\* {'name': name, ...} over the parameters of a signature, in order
Params(call, names) == [i \in 1..Len(names) |-> <<names[i], Arg(call, names[i])>>]

\* {'file_ref': f'{base}{suffix}', ...}: the internal names of a block
InternalNames(base, suffixes) ==
    [i \in 1..Len(suffixes) |-> <<suffixes[i][1], Relative(base \o suffixes[i][2])>>]

PreparedInputs ==
    <<<<"input_rec_path", "_rec.pdb">>, <<"input_rec_H_path", "_rec.pdb.H">>,
      <<"input_rec_amber_path", "_rec.pdb.amber">>, <<"input_lig_path", "_lig.pdb">>,
      <<"input_lig_H_path", "_lig.pdb.H">>, <<"input_lig_amber_path", "_lig.pdb.amber">>,
      <<"input_rot_path", ".rot">>>>

Keys(items) == [i \in 1..Len(items) |-> items[i][1]]

Setup(call) ==
    [name |-> "setup", module |-> "setup", renames |-> FALSE, ini |-> "paths",
     cmd_name |-> docking_name,
     external_input_paths |-> <<>>,
     external_output_paths |->
         Params(call, <<"output_rec_path", "output_rec_H_path", "output_rec_amber_path",
                        "output_lig_path", "output_lig_H_path", "output_lig_amber_path",
                        "output_ref_path">>),
     io_in |->
         Params(call, <<"input_rec_pdb_path", "input_rec_coords_path", "input_rec_top_path",
                        "input_lig_pdb_path", "input_lig_coords_path", "input_lig_top_path",
                        "input_ref_path">>),
     io_out |->
         InternalNames(docking_name,
             <<<<"output_rec_path", "_rec.pdb">>, <<"output_rec_H_path", "_rec.pdb.H">>,
               <<"output_rec_amber_path", "_rec.pdb.amber">>,
               <<"output_lig_path", "_lig.pdb">>, <<"output_lig_H_path", "_lig.pdb.H">>,
               <<"output_lig_amber_path", "_lig.pdb.amber">>,
               <<"output_ref_path", "_ref.pdb">>>>)]

Ftdock(call) ==
    [name |-> "ftdock", module |-> "ftdock", renames |-> TRUE, ini |-> "none",
     cmd_name |-> docking_name,
     external_input_paths |-> Params(call, <<"input_rec_path", "input_lig_path">>),
     external_output_paths |-> Params(call, <<"output_ftdock_path", "output_rot_path">>),
     io_in |->
         InternalNames(docking_name,
             <<<<"input_rec_path", "_rec.pdb">>, <<"input_lig_path", "_lig.pdb">>>>),
     io_out |->
         InternalNames(docking_name,
             <<<<"output_ftdock_path", ".ftdock">>, <<"output_rot_path", ".rot">>>>)]

Dockser(call) ==
    [name |-> "dockser", module |-> "dockser", renames |-> TRUE, ini |-> "none",
     cmd_name |-> docking_name,
     external_input_paths |-> Params(call, Keys(PreparedInputs)),
     external_output_paths |-> Params(call, <<"output_ene_path">>),
     io_in |-> InternalNames(docking_name, PreparedInputs),
     io_out |-> InternalNames(docking_name, <<<<"output_ene_path", ".ene">>>>)]

Dockrst(call) ==
    [name |-> "dockrst", module |-> "dockrst", renames |-> TRUE, ini |-> "no paths",
     cmd_name |-> docking_name,
     external_input_paths |->
         Params(call, Keys(PreparedInputs) \o <<"input_ene_path">>),
     external_output_paths |-> Params(call, <<"output_rst_path", "output_ene_rst_path">>),
     io_in |->
         InternalNames(docking_name, PreparedInputs \o <<<<"input_ene_path", ".ene">>>>),
     io_out |->
         InternalNames(docking_name,
             <<<<"output_ene_rst_path", ".eneRST">>, <<"output_rst_path", ".rst">>>>)]

Oda(call) ==
    [name |-> "oda", module |-> "oda", renames |-> TRUE, ini |-> "none",
     cmd_name |-> subunit_name \o ".pdb",
     external_input_paths |-> Params(call, <<"input_structure_path">>),
     external_output_paths |->
         Params(call, <<"output_oda_path", "output_oda_H_path", "output_oda_amber_path",
                        "output_oda_tab_path">>),
     io_in |-> InternalNames(subunit_name, <<<<"input_structure_path", ".pdb">>>>),
     io_out |->
         InternalNames(subunit_name,
             <<<<"output_oda_path", ".pdb.oda">>, <<"output_oda_H_path", ".pdb.oda.H">>,
               <<"output_oda_amber_path", ".oda.amber">>,
               <<"output_oda_tab_path", ".pdb.oda.ODAtab">>>>)]

\* properties.get('rank1', '1'), properties.get('rank2', '100')
DefaultRank1 == AsStr(1)
DefaultRank2 == AsStr(100)
Rank1(props) == IF "rank1" \in DOMAIN props THEN props.rank1 ELSE DefaultRank1
Rank2(props) == IF "rank2" \in DOMAIN props THEN props.rank2 ELSE DefaultRank2

\* str(self.rank1): a str as it is, an int in decimal
RECURSIVE DigitsStr(_)
DigitsStr(digits) ==
    IF digits = <<>> THEN "" ELSE ToString(Head(digits)) \o DigitsStr(Tail(digits))
RankStr(x) == IF x.str THEN DigitsStr(x.digits) ELSE ToString(x.int)

\* the energy table of the test data: a ranking, with one row beyond rank 10
EnergyTable ==
    <<[Conf |-> 4333, RANK |-> 1], [Conf |-> 17, RANK |-> 2], [Conf |-> 250, RANK |-> 12]>>

\* pd.read_csv(input_ene_path, delimiter='\s+') on the files on disk
read_csv(files, input_ene_path) ==
    IF Exists(files, input_ene_path) /\ files[input_ene_path] = "data:dockser_output.ene"
    THEN EnergyTable ELSE <<>>

\* output_dict[str(conf)] = file over zip(conformations, output_files): a
\* key met again keeps its place, and its value is the same file name
RECURSIVE DictOfOutputs(_, _, _)
DictOfOutputs(conformations, output_files, output_dict) ==
    IF conformations = <<>> THEN output_dict
    ELSE LET key == ToString(Head(conformations))
         IN DictOfOutputs(Tail(conformations), Tail(output_files),
                IF \E i \in 1..Len(output_dict) : output_dict[i][1] = key
                THEN output_dict
                ELSE Append(output_dict, <<key, Relative(Head(output_files))>>))

get_conformations_dict(input_ene_path, rank1, rank2) ==
    DictOfOutputs(get_conformations(input_ene_path, rank1, rank2),
                  get_conformation_filenames(docking_name, input_ene_path, rank1, rank2),
                  <<>>)

MakePDB(call, props, files) ==
    [name |-> "makePDB", module |-> "makePDB", renames |-> TRUE, ini |-> "none",
     cmd_name |-> docking_name,
     external_input_paths |->
         Params(call, Keys(PreparedInputs) \o <<"input_ene_path">>),
     external_output_paths |-> Params(call, <<"output_zip_path">>),
     io_in |->
         InternalNames(docking_name, PreparedInputs \o <<<<"input_ene_path", ".ene">>>>),
     io_out |->
         get_conformations_dict(read_csv(files, Arg(call, "input_ene_path")),
                                Rank1(props), Rank2(props))]

-----------------------------------------------------------------------------
(* launch, step by step.  The steps of the base class (check_restart,      *)
(* stage_files, run_biobb, copy_to_host, remove_tmp_files) are modelled by *)
(* what the blocks rely on at the places where they call them.             *)

\* Path(fu.create_unique_dir()).resolve(): a fresh directory per call
UniqueDir(n) == "/cwd/sandbox_" \o ToString(n)
RenamingDir(n) == "/cwd/renaming_" \o ToString(n)

\* check_restart: the property restart is set and every file of
\* io_dict['out'] exists
check_restart(block, props, files) ==
    /\ props.restart
    /\ \A i \in 1..Len(block.io_out) : Exists(files, block.io_out[i][2])

\* renaming_stage: io_dict['in'] with every internal name moved under
\* renaming_dir
RenamedInputs(io_in, renaming_dir) ==
    [i \in 1..Len(io_in) |->
        <<io_in[i][1],
          IF io_in[i][2] # NonePath THEN JoinName(renaming_dir, io_in[i][2])
          ELSE io_in[i][2]>>]

\* stage_files: every input that is given and exists is copied into
\* unique_dir under its own file name
RECURSIVE StageInputs(_, _, _)
StageInputs(files, io_in, unique_dir) ==
    IF io_in = <<>> THEN files
    ELSE LET file_path == Head(io_in)[2]
         IN StageInputs(IF file_path # NonePath /\ Exists(files, file_path)
                        THEN CopyFile(files, file_path, JoinName(unique_dir, file_path))
                        ELSE files,
                        Tail(io_in), unique_dir)

\* where the command finds the staged files: container_volume_path when
\* container_path is set, unique_dir otherwise
IoPath(props, unique_dir) == IF props.container THEN container_volume_path ELSE unique_dir

\* stage_io_dict['in']: an entry for every input that is given, the staged
\* path for a file that exists
StagedInputs(files, io_in, props, unique_dir) ==
    LET given == {i \in 1..Len(io_in) : io_in[i][2] # NonePath}
        at(key) == CHOOSE i \in given : io_in[i][1] = key
    IN [key \in {io_in[i][1] : i \in given} |->
            IF Exists(files, io_in[at(key)][2])
            THEN PathStr(JoinName(IoPath(props, unique_dir), io_in[at(key)][2]))
            ELSE PathStr(io_in[at(key)][2])]

CmdPathInUniqueDir(props, unique_dir, name) == unique_dir \o "/" \o name

\* str(Path(io_path).joinpath(name))
CmdPath(props, unique_dir, name) == IoPath(props, unique_dir) \o "/" \o name

\* self.cmd
Cmd(block, props, unique_dir) ==
    IF block.name = "ftdock"
    THEN <<binary_path, CmdPath(props, unique_dir, block.cmd_name), "ftdock", "&&",
           binary_path, docking_name, "rotftdock">>
    ELSE <<binary_path, CmdPath(props, unique_dir, block.cmd_name), block.module>>

\* the INI file a block writes into unique_dir before the run
BlockIni(block, props, stage_in) ==
    CASE block.ini = "paths" ->
             create_ini(props.receptor, props.ligand, props.reference, Paths(stage_in))
      [] block.ini = "no paths" ->
             create_ini(props.receptor, props.ligand, NoneDict, NoPaths)
      [] OTHER -> NotCalled

\* run_biobb: the docking tool is outside the repository.  It either fails
\* and leaves nothing, or leaves every output of the block under its
\* internal name in unique_dir; setup leaves the reference output only when
\* the INI file has a reference section.
Produced(block, ini) ==
    {i \in 1..Len(block.io_out) :
        block.io_out[i][1] = "output_ref_path"
            => \E k \in 1..Len(ini.lines) : ini.lines[k] = "[reference]"}

RECURSIVE RunTool(_, _, _, _)
RunTool(files, io_out, produced, unique_dir) ==
    IF produced = {} THEN files
    ELSE LET i == CHOOSE j \in produced : TRUE
             out == JoinName(unique_dir, io_out[i][2])
         IN RunTool(WriteFile(files, out, "out:" \o out.name), io_out,
                    produced \ {i}, unique_dir)

\* copy_to_host: every output found in unique_dir is copied to its path in
\* io_dict['out'], the internal name in the working directory
RECURSIVE copy_to_host(_, _, _)
copy_to_host(files, io_out, unique_dir) ==
    IF io_out = <<>> THEN files
    ELSE LET file_path == Head(io_out)[2]
             sandbox_file_path == JoinName(unique_dir, file_path)
         IN copy_to_host(IF Exists(files, sandbox_file_path)
                         THEN CopyFile(files, sandbox_file_path, file_path) ELSE files,
                         Tail(io_out), unique_dir)

remove_tmp_files_first(files, tmp_files, props) ==
    IF tmp_files = <<>> \/ ~props.remove_tmp THEN files
    ELSE RemoveDir(files, Head(tmp_files))

\* remove_tmp_files: the directories of tmp_files are removed when the
\* property remove_tmp is set
RECURSIVE remove_tmp_files(_, _, _)
remove_tmp_files(files, tmp_files, props) ==
    IF tmp_files = <<>> \/ ~props.remove_tmp THEN files
    ELSE remove_tmp_files(RemoveDir(files, Head(tmp_files)), Tail(tmp_files), props)

\* What a call leaves behind: the files, and the record of the call.
Outcome(files, block, call, props, tool, status, more) ==
    [files |-> files,
     last |-> [status |-> status, block |-> block.name, call |-> call, props |-> props,
               tool |-> tool, io_out |-> block.io_out,
               external_output_paths |-> block.external_output_paths] @@ more]

NotRun ==
    [ran |-> FALSE, ini |-> NotCalled, cmd |-> <<>>, staged |-> {}, stage_in |-> <<>>,
     produced |-> {}, unique_dir |-> "", tmp_files |-> <<>>, return_code |-> 0]

\* launch of a block on the files on disk, as call number n
launch(block, call, props, tool, files, n) ==
    IF check_restart(block, props, files)
    THEN Outcome(files, block, call, props, tool, "returned", NotRun)
    ELSE
    LET renaming_dir == RenamingDir(n)
        unique_dir == UniqueDir(n)
        io_in == IF block.renames THEN RenamedInputs(block.io_in, renaming_dir)
                 ELSE block.io_in
        renamed == IF block.renames
                   THEN copy_files(files, block.external_input_paths, io_in) ELSE files
        staged == StageInputs(renamed, io_in, unique_dir)
        stage_in == StagedInputs(renamed, io_in, props, unique_dir)
        ini == BlockIni(block, props, stage_in)
        with_ini == IF ini = NotCalled \/ ini.raised THEN staged
                    ELSE WriteFile(staged, Path(unique_dir, docking_name \o ".ini"), "ini")
        run == IF tool = "ok"
               THEN RunTool(with_ini, block.io_out, Produced(block, ini), unique_dir)
               ELSE with_ini
        on_host == copy_to_host(run, block.io_out, unique_dir)
        renamed_out == rename_files(on_host, block.io_out, block.external_output_paths)
        tmp_files == IF block.renames THEN <<unique_dir, renaming_dir>> ELSE <<unique_dir>>
        done == [ran |-> TRUE, ini |-> ini, cmd |-> Cmd(block, props, unique_dir),
                 staged |-> Listing(with_ini, unique_dir), stage_in |-> stage_in,
                 produced |-> IF tool = "ok"
                              THEN {block.io_out[i][1] : i \in Produced(block, ini)}
                              ELSE {},
                 unique_dir |-> unique_dir, tmp_files |-> tmp_files,
                 return_code |-> IF tool = "ok" THEN 0 ELSE 1]
    IN IF ini.raised
       THEN Outcome(staged, block, call, props, tool, "raised",
                    [NotRun EXCEPT !.ini = ini, !.stage_in = stage_in,
                                   !.unique_dir = unique_dir])
       ELSE IF renamed_out.raised
       THEN Outcome(renamed_out.files, block, call, props, tool, "raised",
                    [done EXCEPT !.tmp_files = <<>>])
       ELSE Outcome(remove_tmp_files(renamed_out.files, tmp_files, props),
                    block, call, props, tool, "returned", done)

-----------------------------------------------------------------------------
(* MakePDB.launch: the outputs are zipped, not renamed *)

\* the order of str on two decimal numerals, digit by digit; a numeral
\* that is a prefix of the other comes first ('.' sorts before the digits)
RECURSIVE LexLess(_, _)
LexLess(a, b) ==
    IF a = <<>> THEN b # <<>>
    ELSE IF b = <<>> THEN FALSE
    ELSE IF Head(a) # Head(b) THEN Head(a) < Head(b)
    ELSE LexLess(Tail(a), Tail(b))

\* the conformation number in a file name '<docking_name>_<conf>.pdb'
ConfOfName(name) ==
    CHOOSE conf \in {EnergyTable[i].Conf : i \in 1..Len(EnergyTable)} :
        ConformationFilename(docking_name, conf) = name

\* file_list.sort(): the names differ in the conformation number only
RECURSIVE SortNames(_)
SortNames(file_list) ==
    IF file_list = <<>> THEN <<>>
    ELSE LET least == CHOOSE i \in 1..Len(file_list) :
                          \A j \in 1..Len(file_list) :
                              j # i => LexLess(DigitsOf(ConfOfName(file_list[i].name)),
                                               DigitsOf(ConfOfName(file_list[j].name)))
         IN <<file_list[least]>>
            \o SortNames([k \in 1..(Len(file_list) - 1) |->
                              IF k < least THEN file_list[k] ELSE file_list[k + 1]])

\* the content of a zip file: its members in the order they were written,
\* each under its base name
RECURSIVE ZipOf(_)
ZipOf(members) ==
    IF members = <<>> THEN "zip:"
    ELSE ZipOf(SubSeq(members, 1, Len(members) - 1))
         \o members[Len(members)].name \o "=" \o members[Len(members)].content \o ";"

\* the files of the sorted list up to the first that does not exist
RECURSIVE Zipped(_, _)
Zipped(files, sorted) ==
    IF sorted = <<>> \/ ~Exists(files, Head(sorted)) THEN <<>>
    ELSE <<[name |-> Head(sorted).name, content |-> files[Head(sorted)]]>>
         \o Zipped(files, Tail(sorted))

\* fu.zip_list: the sorted files are written into a new zip file one by
\* one; a file that does not exist raises FileNotFoundError and leaves the
\* zip with the members written before it
zip_list(files, zip_file, file_list) ==
    LET sorted == SortNames(file_list)
        members == Zipped(files, sorted)
    IN [files |-> WriteFile(files, zip_file, ZipOf(members)),
        raised |-> Len(members) < Len(sorted)]

rm_list_kept(files, file_list) == files

\* fu.rm of the files of tmp_files
RECURSIVE rm_list(_, _)
rm_list(files, file_list) ==
    IF file_list = <<>> THEN files
    ELSE rm_list(RemoveFile(files, Head(file_list)), Tail(file_list))

\* launch of MakePDB on the files on disk, as call number n
MakePDB_launch(block, call, props, tool, files, n) ==
    IF check_restart(block, props, files)
    THEN Outcome(files, block, call, props, tool, "returned", NotRun)
    ELSE
    LET renaming_dir == RenamingDir(n)
        unique_dir == UniqueDir(n)
        io_in == RenamedInputs(block.io_in, renaming_dir)
        renamed == copy_files(files, block.external_input_paths, io_in)
        staged == StageInputs(renamed, io_in, unique_dir)
        cmd == Cmd(block, props, unique_dir) \o <<RankStr(Rank1(props)), RankStr(Rank2(props))>>
        run == IF tool = "ok"
               THEN RunTool(staged, block.io_out, 1..Len(block.io_out), unique_dir)
               ELSE staged
        on_host == copy_to_host(run, block.io_out, unique_dir)
        output_files == [i \in 1..Len(block.io_out) |-> block.io_out[i][2]]
        zipped == zip_list(on_host, Arg(call, "output_zip_path"), output_files)
        tmp_files == <<unique_dir, renaming_dir>>
        removed == IF props.remove_tmp
                   THEN rm_list(remove_tmp_files(zipped.files, tmp_files, props), output_files)
                   ELSE zipped.files
        done == [ran |-> TRUE, ini |-> NotCalled, cmd |-> cmd,
                 staged |-> Listing(staged, unique_dir),
                 stage_in |-> StagedInputs(renamed, io_in, props, unique_dir),
                 produced |-> IF tool = "ok"
                              THEN {block.io_out[i][1] : i \in 1..Len(block.io_out)}
                              ELSE {},
                 unique_dir |-> unique_dir, tmp_files |-> tmp_files,
                 return_code |-> IF tool = "ok" THEN 0 ELSE 1]
    IN IF zipped.raised
       THEN Outcome(zipped.files, block, call, props, tool, "raised",
                    [done EXCEPT !.tmp_files = <<>>])
       ELSE Outcome(removed, block, call, props, tool, "returned", done)

-----------------------------------------------------------------------------
(* The calls of the blocks: the calls of the tests and of the docstring    *)
(* examples, with each optional argument given or left out                 *)

DataDir == "/test/data"
Data(name) == Path(DataDir, name)

\* the files the caller has before the first call, each with its own content
DataFiles ==
    {"receptor.pdb", "ligand.pdb", "reference.pdb",
     "prepared_receptor.pdb", "prepared_receptor.pdb.H", "prepared_receptor.pdb.amber",
     "prepared_ligand.pdb", "prepared_ligand.pdb.H", "prepared_ligand.pdb.amber",
     "prepared_reference.pdb", "rotftdock_output.rot", "dockser_output.ene"}

InitialFiles == [p \in {Data(name) : name \in DataFiles} |-> "data:" \o p.name]

\* the workflow properties of a block, the same for every block
Properties(receptor, ligand, reference) ==
    [restart : BOOLEAN, container : BOOLEAN, remove_tmp : {TRUE},
     receptor : {receptor}, ligand : {ligand}, reference : {reference}]

DefaultReceptor == <<<<"mol", "A">>, <<"newmol", "A">>>>
DefaultLigand == <<<<"mol", "A">>, <<"newmol", "B">>>>

SetupOutputs ==
    [output_rec_path |-> Relative("prepared_receptor.pdb"),
     output_rec_H_path |-> Relative("prepared_receptor.pdb.H"),
     output_rec_amber_path |-> Relative("prepared_receptor.pdb.amber"),
     output_lig_path |-> Relative("prepared_ligand.pdb"),
     output_lig_H_path |-> Relative("prepared_ligand.pdb.H"),
     output_lig_amber_path |-> Relative("prepared_ligand.pdb.amber")]

OutputRef == [output_ref_path |-> Relative("prepared_reference.pdb")]
InputRef == [input_ref_path |-> Data("reference.pdb")]

\* the call of test/setup_test.py
SetupTestCall ==
    [input_rec_path |-> Data("receptor.pdb"), input_lig_path |-> Data("ligand.pdb")]
    @@ InputRef @@ SetupOutputs @@ OutputRef

SetupTestReference ==
    Dict(<<<<"recmol", "A">>, <<"ligmol", "H">>, <<"newrecmol", "A">>, <<"newligmol", "B">>>>)

\* the call of the docstring example of Setup, with the reference input
\* and the reference output each given or left out
SetupExampleCalls ==
    {[input_rec_pdb_path |-> Data("receptor.pdb"),
      input_lig_pdb_path |-> Data("ligand.pdb")] @@ in_ref @@ SetupOutputs @@ out_ref :
        in_ref \in {<<>>, InputRef}, out_ref \in {<<>>, OutputRef}}

SetupCalls ==
    ({SetupTestCall} \X
        {p \in Properties(DefaultReceptor, DefaultLigand, SetupTestReference) : p.container})
    \cup
    (SetupExampleCalls \X
        (Properties(DefaultReceptor, DefaultLigand, NoneDict) \cup
         Properties(DefaultReceptor, DefaultLigand,
                    Dict(<<<<"recmol", "A">>, <<"ligmol", "H">>>>))))

PreparedCall ==
    [input_rec_path |-> Data("prepared_receptor.pdb"),
     input_rec_H_path |-> Data("prepared_receptor.pdb.H"),
     input_rec_amber_path |-> Data("prepared_receptor.pdb.amber"),
     input_lig_path |-> Data("prepared_ligand.pdb"),
     input_lig_H_path |-> Data("prepared_ligand.pdb.H"),
     input_lig_amber_path |-> Data("prepared_ligand.pdb.amber"),
     input_rot_path |-> Data("rotftdock_output.rot")]

\* the call of test/ftdock_test.py
FtdockCalls ==
    {[input_rec_path |-> Data("prepared_receptor.pdb"),
      input_lig_path |-> Data("prepared_ligand.pdb"),
      output_ftdock_path |-> Relative("ftdock_output.ftdock"),
      output_rot_path |-> Relative("rotftdock_output.rot")]}
    \X Properties(DefaultReceptor, DefaultLigand, NoneDict)

\* the call of test/dockser_test.py, and the call of the docstring example
\* of Dockser, which passes input_ref_path
DockserCalls ==
    {PreparedCall @@ in_ref @@ [output_ene_path |-> Relative("dockser_output.ene")] :
        in_ref \in {<<>>, [input_ref_path |-> Data("prepared_reference.pdb")]}}
    \X Properties(DefaultReceptor, DefaultLigand, NoneDict)

\* the call of test/dockrst_test.py
DockrstCalls ==
    {PreparedCall @@ [input_ene_path |-> Data("dockser_output.ene"),
                      output_rst_path |-> Relative("restrains_scoring.rst"),
                      output_ene_rst_path |-> Relative("combined_scoring.eneRST")]}
    \X Properties(<<<<"mol", "A">>, <<"newmol", "A">>, <<"restr", "A.Pro.416">>>>,
                  <<<<"mol", "A">>, <<"newmol", "B">>, <<"restr", "B.Ala.133">>>>, NoneDict)

\* the call of test/oda_test.py
OdaCalls ==
    {[input_structure_path |-> Data("receptor.pdb"),
      output_oda_path |-> Relative("receptor.pdb.oda"),
      output_oda_H_path |-> Relative("receptor.pdb.oda.H"),
      output_oda_tab_path |-> Relative("receptor.pdb.oda.ODAtab"),
      output_oda_amber_path |-> Relative("receptor.oda.amber")]}
    \X Properties(DefaultReceptor, DefaultLigand, NoneDict)

\* rank1 and rank2 as the callers give them: left out, as in the docstring
\* example (str), as in test/makePDB_test.py (int), and set equal
RankProperties ==
    {<<>>,
     [rank1 |-> AsStr(2)],
     [rank1 |-> AsStr(1), rank2 |-> AsStr(10)],
     [rank1 |-> AsInt(1), rank2 |-> AsInt(3)],
     [rank1 |-> AsInt(2), rank2 |-> AsInt(2)]}

\* the call of test/makePDB_test.py, with remove_tmp set or not
MakePDBCalls ==
    {PreparedCall @@ [input_ene_path |-> Data("dockser_output.ene"),
                      output_zip_path |-> Relative("docking_conformations.zip")]}
    \X {p @@ r : p \in [restart : BOOLEAN, container : BOOLEAN, remove_tmp : BOOLEAN,
                         receptor : {DefaultReceptor}, ligand : {DefaultLigand},
                         reference : {NoneDict}],
                 r \in RankProperties}

\* a receptor file of the caller that lies in the working directory under
\* the name '<docking_name>_rec.pdb'
WorkdirFiles ==
    [p \in {Relative(docking_name \o "_rec.pdb")} |-> "data:" \o p.name]

\* a call of setup on that receptor file
SetupInPlaceCalls ==
    {[input_rec_pdb_path |-> Relative(docking_name \o "_rec.pdb"),
      input_lig_pdb_path |-> Data("ligand.pdb")] @@ SetupOutputs}
    \X Properties(DefaultReceptor, DefaultLigand, NoneDict)

-----------------------------------------------------------------------------
(* Calls of the blocks, one after the other on the same working directory  *)

Init ==
    /\ fs = InitialFiles
    /\ last = NoLaunch
    /\ launches = 0
    /\ ini_in = "idle"
    /\ ini_out = NotCalled
    /\ rank_in = "idle"
    /\ rank_out = NoRankResults

\* the outcomes of a run of the docking tool
ToolOutcomes == {"ok", "fail"}

\* the state after a call: the files it leaves and the record of the call
Launched(r) ==
    /\ fs' = r.files
    /\ last' = r.last
    /\ launches' = launches + 1
    /\ UNCHANGED <<ini_vars, rank_vars>>

setup ==
    /\ launches < MaxLaunches
    /\ \E c \in SetupCalls, tool \in ToolOutcomes :
           Launched(launch(Setup(c[1]), c[1], c[2], tool, fs, launches + 1))

ftdock ==
    /\ launches < MaxLaunches
    /\ \E c \in FtdockCalls, tool \in ToolOutcomes :
           Launched(launch(Ftdock(c[1]), c[1], c[2], tool, fs, launches + 1))

dockser ==
    /\ launches < MaxLaunches
    /\ \E c \in DockserCalls, tool \in ToolOutcomes :
           Launched(launch(Dockser(c[1]), c[1], c[2], tool, fs, launches + 1))

dockrst ==
    /\ launches < MaxLaunches
    /\ \E c \in DockrstCalls, tool \in ToolOutcomes :
           Launched(launch(Dockrst(c[1]), c[1], c[2], tool, fs, launches + 1))

oda ==
    /\ launches < MaxLaunches
    /\ \E c \in OdaCalls, tool \in ToolOutcomes :
           Launched(launch(Oda(c[1]), c[1], c[2], tool, fs, launches + 1))

makePDB ==
    /\ launches < MaxLaunches
    /\ \E c \in MakePDBCalls, tool \in ToolOutcomes :
           Launched(MakePDB_launch(MakePDB(c[1], c[2], fs), c[1], c[2], tool, fs,
                                   launches + 1))

setup_in_place ==
    /\ launches < MaxLaunches
    /\ \E c \in SetupInPlaceCalls, tool \in ToolOutcomes :
           Launched(launch(Setup(c[1]), c[1], c[2], tool, fs, launches + 1))

Next == setup \/ ftdock \/ dockser \/ dockrst \/ oda

\* the six blocks, on a working directory that holds a file of the caller
InitBlocks ==
    /\ fs = InitialFiles @@ WorkdirFiles
    /\ last = NoLaunch
    /\ launches = 0
    /\ ini_in = "idle"
    /\ ini_out = NotCalled
    /\ rank_in = "idle"
    /\ rank_out = NoRankResults

NextBlocks == setup \/ setup_in_place \/ ftdock \/ dockser \/ dockrst \/ oda \/ makePDB

-----------------------------------------------------------------------------
(* Specifications *)

SpecIni == IniInit /\ [][IniNext]_vars

SpecRank == RankInit /\ [][RankNext]_vars

Spec == Init /\ [][Next]_vars

SpecBlocks == InitBlocks /\ [][NextBlocks]_vars

-----------------------------------------------------------------------------
(* Properties of create_ini, checked under SpecIni *)

IniCalled == ini_out # NotCalled
IniWritten == IniCalled /\ ~ini_out.raised

\* the lines of the written file that equal a given section header
Positions(lines, header) == {i \in 1..Len(lines) : lines[i] = header}
Headers == {"[receptor]", "[ligand]", "[reference]"}
HeadersOf(lines) == {lines[i] : i \in 1..Len(lines)} \cap Headers

\* what the caller passed under a key of input_paths
Given(key) ==
    IF ~ini_in.input_paths.none /\ key \in DOMAIN ini_in.input_paths.map
    THEN ini_in.input_paths.map[key] ELSE NoneV
Supplied(key) == Truthy(Given(key))

\* f'{key} = {value}' of the k-th item of a property dictionary
ItemLine(items, k) == items[k][1] \o " = " \o items[k][2]

\* C1: in every file create_ini writes, '[receptor]' is the first line and
\* occurs once, '[ligand]' occurs once and '[reference]' at most once, in
\* this order; the lines between two headers are the 'pdb' entry and the
\* property items of the earlier section and nothing else, so no line of a
\* later section precedes a line of an earlier one.
C1_SectionsInOrder ==
    IniWritten =>
        LET L == ini_out.lines
            rp == ini_in.receptor_prop
            lp == ini_in.ligand_prop
            lig == 3 + Len(rp)
            ref == lig + 2 + Len(lp)
        IN /\ Positions(L, "[receptor]") = {1}
           /\ Positions(L, "[ligand]") = {lig}
           /\ Positions(L, "[reference]") \in {{}, {ref}}
           /\ L[2] \notin Headers /\ L[lig + 1] \notin Headers
           /\ \A k \in 1..Len(rp) : L[2 + k] = ItemLine(rp, k)
           /\ \A k \in 1..Len(lp) : L[lig + 1 + k] = ItemLine(lp, k)
           /\ Positions(L, "[reference]") = {} => Len(L) = ref - 1
           /\ \A i \in 1..Len(L) : \A j \in 1..Len(L) :
                  (L[i] = "[receptor]" /\ L[j] \in {"[ligand]", "[reference]"}) \/
                  (L[i] = "[ligand]" /\ L[j] = "[reference]") => i < j

\* C1 witness: a three-section file with property items in both sections
C1_Witness ==
    /\ IniWritten
    /\ HeadersOf(ini_out.lines) = Headers
    /\ Len(ini_in.receptor_prop) = 2 /\ Len(ini_in.ligand_prop) = 3

RefPropGiven == ~ini_in.reference_prop.none
RefPathGiven == Given("input_ref_path") # NoneV
TwoSections(lines) ==
    /\ HeadersOf(lines) = {"[receptor]", "[ligand]"}
    /\ Cardinality(Positions(lines, "[receptor]")) = 1
    /\ Cardinality(Positions(lines, "[ligand]")) = 1

\* C2 as stated: the '[reference]' section is written if and only if the
\* reference properties and the reference input path are both not None,
\* and in every other case the file has exactly the two sections receptor
\* and ligand.
C2_Original ==
    IniCalled =>
        /\ ("[reference]" \in HeadersOf(ini_out.lines)) <=> (RefPropGiven /\ RefPathGiven)
        /\ ~(RefPropGiven /\ RefPathGiven) => (IniWritten /\ TwoSections(ini_out.lines))

NewmolGiven ==
    HasKey(ini_in.receptor_prop, "newmol") /\ HasKey(ini_in.ligand_prop, "newmol")

\* C2 amended: the '[reference]' section is written if and only if the
\* reference properties and the reference input path are both not None and
\* the receptor and the ligand properties both have a 'newmol' entry; with
\* both not None and a 'newmol' entry missing the call raises KeyError and
\* writes no file; in every other case the file has exactly the two
\* sections receptor and ligand.
C2_ReferenceIff ==
    IniCalled =>
        /\ ("[reference]" \in HeadersOf(ini_out.lines))
               <=> (RefPropGiven /\ RefPathGiven /\ NewmolGiven)
        /\ (RefPropGiven /\ RefPathGiven /\ ~NewmolGiven)
               => (ini_out.raised /\ ini_out.error = "KeyError" /\ ini_out.lines = <<>>)
        /\ ~(RefPropGiven /\ RefPathGiven) => (IniWritten /\ TwoSections(ini_out.lines))

\* C2 witness: the reference section written for an empty reference
\* dictionary and an empty reference path, neither of which is None
C2_Witness ==
    /\ IniWritten
    /\ "[reference]" \in HeadersOf(ini_out.lines)
    /\ ini_in.reference_prop = Dict(<<>>)
    /\ Given("input_ref_path") = ""

\* the 'pdb' entry the claim C8 describes, from what the caller passed
ExpectedPdb(pdb_key, coords_key, top_key) ==
    IF Supplied(coords_key) /\ Supplied(top_key)
    THEN "pdb = " \o Given(coords_key) \o "," \o Given(top_key)
    ELSE IF Supplied(pdb_key) THEN "pdb = " \o Given(pdb_key)
    ELSE IF HasInputPaths(ini_in.input_paths) THEN "pdb = None"
    ELSE "pdb = -"

\* C8: for the receptor and, independently, the ligand, the entry after the
\* section header is 'pdb = <coords>,<top>' when both the coordinates and
\* the topology path are supplied, and 'pdb = <pdb path>' otherwise (the
\* pdb path being None when input paths are given without it, '-' when no
\* input paths are given); a supplied PDB file or a supplied coordinates
\* and topology pair is therefore named by the entry.
C8_PdbEntry ==
    IniWritten =>
        LET L == ini_out.lines
            lig == 3 + Len(ini_in.receptor_prop)
        IN /\ L[2] = ExpectedPdb("input_rec_pdb_path", "input_rec_coords_path",
                                 "input_rec_top_path")
           /\ L[lig + 1] = ExpectedPdb("input_lig_pdb_path", "input_lig_coords_path",
                                       "input_lig_top_path")

\* C8 witness: a file written for a receptor given by coordinates and
\* topology and a ligand given by its PDB file and the coordinates alone
C8_Witness ==
    /\ IniWritten
    /\ Supplied("input_rec_coords_path") /\ Supplied("input_rec_top_path")
    /\ Supplied("input_lig_pdb_path") /\ Supplied("input_lig_coords_path")
    /\ ~Supplied("input_lig_top_path")
    /\ ini_out.lines[2] = "pdb = /data/receptor.inpcrd,/data/receptor.prmtop"

\* the value a property dictionary holds under 'newmol'
Newmol(prop) == prop[CHOOSE k \in 1..Len(prop) : prop[k][1] = "newmol"][2]

\* C13: a written '[reference]' section is the header, the 'pdb' entry, the
\* entries of the reference properties in their order, and then, as the
\* last two lines of the file, 'newrecmol = <receptor newmol>' and
\* 'newligmol = <ligand newmol>'; this is so for a reference dictionary
\* that has none of 'pdb', 'newrecmol', 'newligmol'.
C13_ReferenceSection ==
    (IniWritten /\ "[reference]" \in HeadersOf(ini_out.lines)) =>
        LET L == ini_out.lines
            items == ini_in.reference_prop.items
            ref == 5 + Len(ini_in.receptor_prop) + Len(ini_in.ligand_prop)
        IN /\ L[ref] = "[reference]"
           /\ L[ref + 1] = "pdb = " \o Given("input_ref_path")
           /\ \A k \in 1..Len(items) : L[ref + 1 + k] = ItemLine(items, k)
           /\ Len(L) = ref + 1 + Len(items) + 2
           /\ L[Len(L) - 1] = "newrecmol = " \o Newmol(ini_in.receptor_prop)
           /\ L[Len(L)] = "newligmol = " \o Newmol(ini_in.ligand_prop)

\* C13 witness: a reference section written for a reference dictionary
\* with 'recmol' and 'ligmol' only, the receptor and the ligand having
\* different 'newmol' values
C13_Witness ==
    /\ IniWritten
    /\ ini_in.reference_prop = Dict(<<<<"recmol", "A">>, <<"ligmol", "H">>>>)
    /\ Given("input_ref_path") = "/data/reference.pdb"
    /\ Newmol(ini_in.receptor_prop) = "A" /\ Newmol(ini_in.ligand_prop) = "B"
    /\ SubSeq(ini_out.lines, Len(ini_out.lines) - 5, Len(ini_out.lines)) =
           <<"[reference]", "pdb = /data/reference.pdb", "recmol = A", "ligmol = H",
             "newrecmol = A", "newligmol = B">>

-----------------------------------------------------------------------------
(* Properties of the energy-table functions, checked under SpecRank *)

\* the number a rank argument denotes, read off the argument
Meant(x) ==
    IF x.str THEN CHOOSE n \in 0..999 : DigitsOf(n) = x.digits ELSE x.int

\* the rows of the table whose RANK lies in the closed range
Selected ==
    {i \in 1..Len(rank_in.input_ene_path) :
        /\ Meant(rank_in.rank1) <= rank_in.input_ene_path[i].RANK
        /\ rank_in.input_ene_path[i].RANK <= Meant(rank_in.rank2)}

\* the k-th selected row, counting in file order
KthSelected(k) == CHOOSE i \in Selected : Cardinality({j \in Selected : j < i}) = k - 1

\* C3: get_conformations returns the Conf value of exactly the rows with
\* rank1 <= RANK <= rank2, both bounds inclusive, in file order, for ranks
\* given as integers and as decimal strings.
C3_InclusiveRange ==
    rank_out.conformations.called =>
        LET out == rank_out.conformations.value
        IN /\ Len(out) = Cardinality(Selected)
           /\ \A k \in 1..Len(out) : out[k] = rank_in.input_ene_path[KthSelected(k)].Conf

\* C3 witness: a call with string ranks that keeps a row at each bound and
\* drops a row in between the kept ones
C3_Witness ==
    /\ rank_out.conformations.called
    /\ rank_in.rank1.str /\ Meant(rank_in.rank1) = 2 /\ Meant(rank_in.rank2) = 12
    /\ Len(rank_in.input_ene_path) = 3
    /\ rank_in.input_ene_path[1].RANK = 12
    /\ rank_in.input_ene_path[2].RANK = 1
    /\ rank_in.input_ene_path[3].RANK = 2
    /\ Len(rank_out.conformations.value) = 2

\* C4: get_conformation_filenames returns a list as long as the list of
\* get_conformations for the same arguments whose i-th element is
\* '<docking_name>_<i-th conformation>.pdb'.
C4_Filenames ==
    rank_out.filenames.called =>
        LET confs == rank_out.conformations.value
            names == rank_out.filenames.value
        IN /\ Len(names) = Len(confs)
           /\ \A i \in 1..Len(names) :
                  names[i] = rank_in.docking_name \o "_" \o ToString(confs[i]) \o ".pdb"

\* C4 witness: two file names returned, for two different conformations
C4_Witness ==
    /\ rank_out.filenames.called
    /\ rank_out.filenames.value = <<"docking_name_17.pdb", "docking_name_4333.pdb">>

\* the table is a ranking: each RANK value occurs in one row
Ranking(df) == \A i \in 1..Len(df) : \A j \in 1..Len(df) : df[i].RANK = df[j].RANK => i = j

\* the rows of the table with a given rank
RowsOfRank(df, n) == {i \in 1..Len(df) : df[i].RANK = n}

\* C12: with rank2 equal to rank1 and a table that is a ranking, a table
\* with a row of that rank gives exactly one conformation, the Conf of that
\* row, and exactly one file name; a table without such a row gives none.
C12_SingleRank ==
    (/\ rank_out.filenames.called
     /\ Meant(rank_in.rank1) = Meant(rank_in.rank2)
     /\ Ranking(rank_in.input_ene_path)) =>
        LET df == rank_in.input_ene_path
            rows == RowsOfRank(df, Meant(rank_in.rank1))
            confs == rank_out.conformations.value
            names == rank_out.filenames.value
        IN IF rows # {}
           THEN /\ Len(confs) = 1 /\ Len(names) = 1
                /\ \A i \in rows : confs[1] = df[i].Conf
           ELSE Len(confs) = 0 /\ Len(names) = 0

\* C12 witness: rank1 = rank2 = 2 on a ranking of three rows whose second
\* row has rank 2: one conformation and one file name
C12_Witness ==
    /\ rank_out.filenames.called
    /\ Meant(rank_in.rank1) = 2 /\ Meant(rank_in.rank2) = 2
    /\ Len(rank_in.input_ene_path) = 3 /\ Ranking(rank_in.input_ene_path)
    /\ rank_in.input_ene_path[2] = [Conf |-> 17, RANK |-> 2]
    /\ rank_out.conformations.value = <<17>>
    /\ rank_out.filenames.value = <<"docking_name_17.pdb">>

-----------------------------------------------------------------------------
(* Properties of the blocks, checked under Spec *)

\* a call of a block has been made, and it got past check_restart
Called == last.status # "none"
Ran == Called /\ last.ran

\* the file_refs of the last block's outputs, and their two paths
OutputRefs == {last.io_out[i][1] : i \in 1..Len(last.io_out)}
InternalPath(ref) == Lookup(last.io_out, ref)
ExternalPath(ref) == Lookup(last.external_output_paths, ref)

\* what the tool writes into an output, by the output's internal name
ToolContent(ref) == "out:" \o InternalPath(ref).name

\* the tool of the last call left every output of the block
ProducedAll == Ran /\ last.produced = OutputRefs

\* the output is where the caller asked for it and no longer under its
\* internal name
Delivered(ref) ==
    /\ Exists(fs, ExternalPath(ref)) /\ fs[ExternalPath(ref)] = ToolContent(ref)
    /\ ~Exists(fs, InternalPath(ref))

\* C5 as stated: after a launch of setup, ftdock, dockser, dockrst or oda
\* whose tool produced every output under its internal name, every external
\* output path the caller gave holds the content of its internal output and
\* no file with an internal output name is left in the working directory.
C5_Original ==
    ProducedAll =>
        /\ \A ref \in OutputRefs :
               ExternalPath(ref) # NonePath =>
                   (Exists(fs, ExternalPath(ref)) /\ fs[ExternalPath(ref)] = ToolContent(ref))
        /\ \A ref \in OutputRefs : ~Exists(fs, InternalPath(ref))

\* C5 holds of every launch whose caller gave every output path
C5_WhenEveryOutputPathGiven ==
    (ProducedAll /\ \A ref \in OutputRefs : ExternalPath(ref) # NonePath) =>
        (last.status = "returned" /\ \A ref \in OutputRefs : Delivered(ref))

\* C6 as stated: a launch with restart set, made when every output file the
\* caller names exists, does not execute the tool: it returns without
\* staging or running anything, also as the second launch of the same call.
C6_Original ==
    [][(/\ last'.props.restart
        /\ \A i \in 1..Len(last'.external_output_paths) :
               last'.external_output_paths[i][2] # NonePath
                   => Exists(fs, last'.external_output_paths[i][2]))
       => (~last'.ran /\ last'.status = "returned" /\ last'.return_code = 0 /\ fs' = fs)]_vars

\* what check_restart does look at: the internal names
C6_RestartOnInternalNames ==
    [][(~last'.ran) <=>
       (/\ last'.props.restart
        /\ \A i \in 1..Len(last'.io_out) : Exists(fs, last'.io_out[i][2]))]_vars

\* the caller passed a receptor and a ligand PDB file, under the keywords
\* of the signature or under those of the test
PdbKeywords == {<<"input_rec_pdb_path", "input_lig_pdb_path">>,
                <<"input_rec_path", "input_lig_path">>}
SuppliedPdb(kw) == kw[1] \in DOMAIN last.call /\ kw[2] \in DOMAIN last.call

\* the staged path of a file of the caller
StagedPath(p) == IoPath(last.props, last.unique_dir) \o "/" \o p.name

\* the line after a section header of the INI file of the last call
EntryAfter(header) ==
    LET L == last.ini.lines
    IN L[1 + CHOOSE i \in 1..Len(L) : L[i] = header]

\* C7 as stated: in a setup launch whose caller supplies a receptor and a
\* ligand PDB file, as the call of the setup test does, the 'pdb' entry of
\* [receptor] is the staged path of the receptor file and the 'pdb' entry
\* of [ligand] the staged path of the ligand file.
C7_Original ==
    \A kw \in PdbKeywords :
        (Ran /\ last.block = "setup" /\ SuppliedPdb(kw) /\ ~last.ini.raised) =>
            /\ EntryAfter("[receptor]") = "pdb = " \o StagedPath(last.call[kw[1]])
            /\ EntryAfter("[ligand]") = "pdb = " \o StagedPath(last.call[kw[2]])

\* C7 holds of the calls that use the keywords of the signature
C7_WithSignatureKeywords ==
    (Ran /\ last.block = "setup" /\ ~last.ini.raised
         /\ SuppliedPdb(<<"input_rec_pdb_path", "input_lig_pdb_path">>)) =>
        /\ EntryAfter("[receptor]") = "pdb = " \o StagedPath(last.call.input_rec_pdb_path)
        /\ EntryAfter("[ligand]") = "pdb = " \o StagedPath(last.call.input_lig_pdb_path)

\* C9 as stated: a setup launch without output_ref_path completes without
\* raising, renames the six receptor and ligand outputs the tool left and
\* removes its temporary files, also when the tool left the reference file.
C9_Original ==
    (Ran /\ last.block = "setup" /\ "output_ref_path" \notin DOMAIN last.call) =>
        /\ last.status = "returned"
        /\ \A ref \in last.produced \ {"output_ref_path"} : Delivered(ref)
        /\ Listing(fs, last.unique_dir) = {}

\* C9 holds of the launches in which no reference file reaches the working
\* directory: none left there before the call, none left by the tool
C9_WithoutReferenceFile ==
    [][(/\ ~Exists(fs, Relative(docking_name \o "_ref.pdb"))
        /\ (Ran /\ last.block = "setup" /\ "output_ref_path" \notin DOMAIN last.call
                 /\ "output_ref_path" \notin last.produced)')
       => (/\ last.status = "returned"
           /\ \A ref \in last.produced : Delivered(ref)
           /\ Listing(fs, last.unique_dir) = {})']_vars

\* C10 as stated: when the caller of dockser supplies input_ref_path, the
\* reference file is among the files staged for the run of the tool.
C10_Original ==
    (Ran /\ last.block = "dockser" /\ "input_ref_path" \in DOMAIN last.call) =>
        \E f \in last.staged : f.content = InitialFiles[last.call.input_ref_path]

\* the inputs dockser does stage: the seven of its signature
C10_StagedInputs ==
    (Ran /\ last.block = "dockser") =>
        {f.content : f \in last.staged} =
            {InitialFiles[last.call[key]] : key \in {k[1] : k \in {PreparedInputs[i] : i \in 1..Len(PreparedInputs)}}}

-----------------------------------------------------------------------------
(* Properties of MakePDB, checked under SpecBlocks *)

MakePDBCalled == Called /\ last.block = "makePDB"
MakePDBRan == Ran /\ last.block = "makePDB"

\* the file names of the rows of the test table with lo <= RANK <= hi
NamesOfRanks(lo, hi) ==
    {docking_name \o "_" \o ToString(EnergyTable[i].Conf) \o ".pdb" :
        i \in {j \in 1..Len(EnergyTable) : lo <= EnergyTable[j].RANK /\ EnergyTable[j].RANK <= hi}}

\* the output files the last call expects, by name
ExpectedOutputs == {last.io_out[i][2].name : i \in 1..Len(last.io_out)}

\* the first rank of the last call, as a number
FirstRank == IF "rank1" \in DOMAIN last.props THEN Meant(last.props.rank1) ELSE 1

\* C11 as stated: a MakePDB call without the property rank2 uses 10 as the
\* last rank: the last argument of the command line is '10', and the
\* output files expected are those of the rows with rank1 <= RANK <= 10.
C11_Original ==
    (MakePDBCalled /\ "rank2" \notin DOMAIN last.props) =>
        /\ last.ran => last.cmd[Len(last.cmd)] = "10"
        /\ ExpectedOutputs = NamesOfRanks(FirstRank, 10)

\* what a MakePDB call without rank2 does use: 100
C11_DefaultIs100 ==
    (MakePDBCalled /\ "rank2" \notin DOMAIN last.props) =>
        /\ last.ran => last.cmd[Len(last.cmd)] = "100"
        /\ ExpectedOutputs = NamesOfRanks(FirstRank, 100)

\* the last rank of the last call, as a number
LastRank == IF "rank2" \in DOMAIN last.props THEN Meant(last.props.rank2) ELSE 100

\* the zip file of the last call
ZipPath == last.call.output_zip_path

\* the content is a zip of exactly the files named, each with the content
\* the tool gave it, in some order
ArchiveOf(content, names) ==
    \E order \in [1..Cardinality(names) -> names] :
        /\ \A i \in DOMAIN order : \A j \in DOMAIN order : order[i] = order[j] => i = j
        /\ content = ZipOf([i \in DOMAIN order |->
                                [name |-> order[i], content |-> "out:" \o order[i]]])

\* the tool of the last call left a PDB file for every conformation of the
\* range
ProducedRange == MakePDBRan /\ last.tool = "ok"

\* C14 as stated: after a MakePDB launch whose tool produced a PDB file for
\* every conformation in the range rank1..rank2, the zip at output_zip_path
\* holds exactly those files, named '<docking_name>_<conf>.pdb', and none
\* of them remains in the working directory.
C14_Original ==
    ProducedRange =>
        /\ Exists(fs, ZipPath)
        /\ ArchiveOf(fs[ZipPath], NamesOfRanks(FirstRank, LastRank))
        /\ \A name \in NamesOfRanks(FirstRank, LastRank) : ~Exists(fs, Relative(name))

\* C14 amended: with remove_tmp true (its default), after a MakePDB launch
\* whose tool produced a PDB file for every conformation in the range
\* rank1..rank2, the zip at output_zip_path holds exactly those files and
\* none of them remains in the working directory; with remove_tmp false
\* the zip is the same and every one of the files remains.
C14_ZipOfRange ==
    ProducedRange =>
        /\ last.status = "returned"
        /\ Exists(fs, ZipPath)
        /\ ArchiveOf(fs[ZipPath], NamesOfRanks(FirstRank, LastRank))
        /\ \A name \in NamesOfRanks(FirstRank, LastRank) :
               Exists(fs, Relative(name)) <=> ~last.props.remove_tmp

\* C14 witness: the call of the test (ranks 1 to 3) with remove_tmp true
\* has zipped the files of two conformations and left neither behind
C14_Witness ==
    /\ ProducedRange /\ last.props.remove_tmp
    /\ "rank2" \in DOMAIN last.props /\ last.props.rank2 = AsInt(3)
    /\ fs[ZipPath] = "zip:docking_name_17.pdb=out:docking_name_17.pdb;"
                      \o "docking_name_4333.pdb=out:docking_name_4333.pdb;"
    /\ ~Exists(fs, Relative("docking_name_17.pdb"))
    /\ ~Exists(fs, Relative("docking_name_4333.pdb"))

-----------------------------------------------------------------------------
(* Properties of the launches of all blocks, checked under SpecBlocks *)

\* where the command finds the files of the last call
ExpectedIoPath == IF last.props.container THEN "/data" ELSE last.unique_dir

\* a rank as the text of a command line argument
RankText(x) == IF x.str THEN DigitsStr(x.digits) ELSE ToString(x.int)

\* the command line the claim C15 gives for the block of the last call
ExpectedCmd ==
    CASE last.block \in {"setup", "dockser", "dockrst"} ->
             <<"pydock3", ExpectedIoPath \o "/docking_name", last.block>>
      [] last.block = "makePDB" ->
             <<"pydock3", ExpectedIoPath \o "/docking_name", "makePDB",
               RankText(Rank1(last.props)), RankText(Rank2(last.props))>>
      [] last.block = "oda" ->
             <<"pydock3", ExpectedIoPath \o "/subunit_name.pdb", "oda">>

\* C15: the command line of a launch of setup, dockser or dockrst is
\* [binary_path, <io_path>/<docking_name>, <module>], that of makePDB the
\* same followed by rank1 and rank2 as strings, that of oda
\* [binary_path, <io_path>/<subunit_name>.pdb, 'oda'], where <io_path> is
\* container_volume_path with a container and the staging directory
\* without.
C15_CommandLine ==
    (Ran /\ last.block # "ftdock") => last.cmd = ExpectedCmd

\* C15 witness: makePDB run in a container with the ranks of the test, and
\* the five-element command line it built
C15_Witness ==
    /\ MakePDBRan /\ last.props.container
    /\ last.cmd = <<"pydock3", "/data/docking_name", "makePDB", "1", "3">>

\* the temporary directories the last launch created: the staging
\* directory, and the renaming directory of the blocks that rename inputs
CreatedDirs ==
    {last.unique_dir} \cup (IF last.block = "setup" THEN {} ELSE {RenamingDir(launches)})

\* C16: with remove_tmp true, after a launch that ran and returned, the
\* staging directory and the renaming directory of that launch are in
\* tmp_files and neither holds a file any more, while every output the
\* tool left has reached the path the caller gave (the zip, for makePDB).
C16_TmpDirsRemoved ==
    (Ran /\ last.status = "returned" /\ last.props.remove_tmp) =>
        /\ \A dir \in CreatedDirs :
               /\ \E i \in 1..Len(last.tmp_files) : last.tmp_files[i] = dir
               /\ Listing(fs, dir) = {}
        /\ \A i \in 1..Len(last.external_output_paths) :
               (last.block = "makePDB" \/ last.external_output_paths[i][1] \in last.produced)
                   => Exists(fs, last.external_output_paths[i][2])

\* C16 witness: a second launch, of ftdock, that ran and returned; its two
\* directories are registered and its two outputs delivered
C16_Witness ==
    /\ Ran /\ last.block = "ftdock" /\ last.status = "returned" /\ last.tool = "ok"
    /\ launches = 2
    /\ last.tmp_files = <<"/cwd/sandbox_2", "/cwd/renaming_2">>
    /\ Exists(fs, Relative("ftdock_output.ftdock"))

\* the keywords under which a caller passes an input file
InputKeywords ==
    {"input_rec_pdb_path", "input_rec_coords_path", "input_rec_top_path",
     "input_lig_pdb_path", "input_lig_coords_path", "input_lig_top_path",
     "input_ref_path", "input_rec_path", "input_rec_H_path", "input_rec_amber_path",
     "input_lig_path", "input_lig_H_path", "input_lig_amber_path", "input_rot_path",
     "input_ene_path", "input_structure_path"}

\* the input files of a call that exist
InputFiles(call, files) ==
    {call[k] : k \in {key \in DOMAIN call \cap InputKeywords : Exists(files, call[key])}}

\* C17 as stated: a launch of any block leaves every input file of the
\* caller in place with its content, also an input that lies in the working
\* directory under an internal output name.
C17_Original ==
    [][\A p \in InputFiles(last'.call, fs) : Exists(fs', p) /\ fs'[p] = fs[p]]_vars

\* the input files outside the working directory are never touched
C17_InputsElsewhere ==
    \A p \in DOMAIN InitialFiles : Exists(fs, p) /\ fs[p] = InitialFiles[p]

-----------------------------------------------------------------------------
(* Properties of the command line of ftdock, checked under Spec *)

\* the directories a command can be run in: the working directory of the
\* caller without a container, container_working_dir with one (None: the
\* container's own default)
HostWorkingDir == "/cwd"
ContainerWorkingDirs == {"/data", "/", "/home/user"}
WorkingDirs(props) == IF props.container THEN ContainerWorkingDirs ELSE {HostWorkingDir}

\* the absolute path prefixes a command line is built with
AbsolutePrefixes(io_path) == {io_path \o "/" \o docking_name}

\* the location a path of the command line denotes when the command runs
\* in working_dir
Resolve(path, io_path, working_dir) ==
    IF path \in AbsolutePrefixes(io_path) THEN path
    ELSE IF working_dir = "/" THEN "/" \o path
    ELSE working_dir \o "/" \o path

FtdockRan == Ran /\ last.block = "ftdock"

\* C18 as stated: the prefix passed to rotftdock denotes the same location
\* as the prefix passed to ftdock, with and without a container and for
\* every working directory of the container.
C18_Original ==
    FtdockRan =>
        \A working_dir \in WorkingDirs(last.props) :
            Resolve(last.cmd[6], IoPath(last.props, last.unique_dir), working_dir)
                = Resolve(last.cmd[2], IoPath(last.props, last.unique_dir), working_dir)

\* the two prefixes denote the same location exactly when the command runs
\* in the directory the files were staged to
C18_SameWhenRunInIoPath ==
    FtdockRan =>
        \A working_dir \in WorkingDirs(last.props) \cup {last.unique_dir} :
            (Resolve(last.cmd[6], IoPath(last.props, last.unique_dir), working_dir)
                = Resolve(last.cmd[2], IoPath(last.props, last.unique_dir), working_dir))
            <=> working_dir = IoPath(last.props, last.unique_dir)

====
